---- MODULE Spec2Model ----
(***************************************************************************)
(* Model of the two multi-account drivers of the deployment scanner:       *)
(*   run-multi-account-scan.py            (per-profile files mode)         *)
(*   run-multi-account-scan-single-csv.py (single combined-file mode)      *)
(* Strings are sequences of one-character strings; a CSV row is a sequence *)
(* of fields; a CSV file is a sequence of rows.                            *)
(***************************************************************************)
EXTENDS Integers, Sequences, FiniteSets, TLC

VARIABLES
    script,               \* which driver runs: "files" or "single"
    args,                 \* argparse namespace: start_date, end_date, profiles, dry_run
    config,               \* ~/.aws/config: [state, content]
    pc,                   \* position of main()
    profiles_to_process,  \* resolved profile list
    idx,                  \* number of list entries the loop has finished
    successful_profiles,
    failed_profiles,
    all_csv_data,         \* single mode: collected datasets
    calls,                \* every subprocess.run of the scanner, with its outcome
    running,              \* positions whose child process is alive
    tempfiles,            \* positions whose temp_<profile>.csv is on disk
    fsops,                \* CSV files created, written or deleted during the run
    combined,             \* the --output-file on disk: NoFile or FileOf(rows)
    stdout,               \* the messages of main() the claims speak about
    discovery_ran,        \* get_aws_profiles was called
    exit_code             \* Running, 0 or 1

vars == <<script, args, config, pc, profiles_to_process, idx, successful_profiles,
          failed_profiles, all_csv_data, calls, running, tempfiles, fsops, combined,
          stdout, discovery_ran, exit_code>>

\* ------------------------------------------------------------------ bounds
MaxLines == 2      \* section lines of a generated configuration file
MaxProfiles == 2   \* entries of a generated --profiles argument
MaxBatch == 2      \* entries of the --profiles argument of a full run
MaxResults == 2    \* datasets handed to write_combined_csv
MaxRows == 2       \* rows of a generated dataset

\* ------------------------------------------------------------------ values
None == <<"<None>">>        \* Python's None (no character string equals it)
NoFile == [exists |-> FALSE, rows |-> <<>>]    \* a path with no file
FileOf(rows) == [exists |-> TRUE, rows |-> rows]  \* a CSV file holding rows
Running == 0 - 1            \* exit_code while the process has not exited

NL == "\n"
PROFILE == <<"p", "r", "o", "f", "i", "l", "e">>
DEFAULT == <<"d", "e", "f", "a", "u", "l", "t">>
DEFAULT_SECTION == <<"[">> \o DEFAULT \o <<"]">>

\* ------------------------------------------------------------------ str helpers
\* str.strip() and the regex class \s, over the characters the inputs use
IsSpace(c) == c \in {" ", NL}

RECURSIVE LStrip(_)
LStrip(s) == IF s # <<>> /\ IsSpace(Head(s)) THEN LStrip(Tail(s)) ELSE s

RECURSIVE RStrip(_)
RStrip(s) ==
    IF s # <<>> /\ IsSpace(s[Len(s)]) THEN RStrip(SubSeq(s, 1, Len(s) - 1)) ELSE s

Strip(s) == RStrip(LStrip(s))

\* needle in hay (Python's `in` on strings)
Contains(hay, needle) ==
    \E p \in 1..(Len(hay) - Len(needle) + 1) :
        SubSeq(hay, p, p + Len(needle) - 1) = needle

\* str.split(sep) for a one-character separator
RECURSIVE SplitFrom(_, _, _)
SplitFrom(s, sep, cur) ==
    IF s = <<>> THEN <<cur>>
    ELSE IF Head(s) = sep THEN <<cur>> \o SplitFrom(Tail(s), sep, <<>>)
    ELSE SplitFrom(Tail(s), sep, Append(cur, Head(s)))

Split(s, sep) == SplitFrom(s, sep, <<>>)

\* ------------------------------------------------------------------ get_aws_profiles
\* smallest r >= from with content[r] = "]", 0 when there is none
RECURSIVE FirstClose(_, _)
FirstClose(content, from) ==
    IF from > Len(content) THEN 0
    ELSE IF content[from] = "]" THEN from
    ELSE FirstClose(content, from + 1)

\* number of consecutive \s characters starting at from
RECURSIVE SpaceRun(_, _)
SpaceRun(content, from) ==
    IF from <= Len(content) /\ IsSpace(content[from])
    THEN 1 + SpaceRun(content, from + 1) ELSE 0

\* `^` under re.MULTILINE
AtLineStart(content, p) == p = 1 \/ content[p - 1] = NL

\* One attempt of  \[(?:profile\s+)?([^\]]+)\]  at position p:
\* <<capture, position after the match>>, or <<>> when it does not match.
MatchAt(content, p) ==
    IF content[p] # "[" THEN <<>>
    ELSE
        LET q == p + 1
            r == FirstClose(content, q)
            hasKw == q + 6 <= Len(content) /\ SubSeq(content, q, q + 6) = PROFILE
            ns == IF hasKw THEN SpaceRun(content, q + 7) ELSE 0
        IN  IF r = 0 THEN <<>>
            ELSE IF hasKw /\ ns >= 1 /\ r > q + 7 + ns
                THEN <<SubSeq(content, q + 7 + ns, r - 1), r + 1>>
            ELSE IF hasKw /\ ns >= 2
                THEN <<SubSeq(content, r - 1, r - 1), r + 1>>
            ELSE IF r > q
                THEN <<SubSeq(content, q, r - 1), r + 1>>
            ELSE <<>>

\* re.findall(profile_pattern, content, re.MULTILINE): the captures, left to right
RECURSIVE FindAll(_, _)
FindAll(content, p) ==
    IF p > Len(content) THEN <<>>
    ELSE IF AtLineStart(content, p) /\ MatchAt(content, p) # <<>>
        THEN <<MatchAt(content, p)[1]>> \o FindAll(content, MatchAt(content, p)[2])
    ELSE FindAll(content, p + 1)

\* the loop over matches: keep the stripped names that are neither empty nor default
RECURSIVE NamedProfiles(_)
NamedProfiles(matches) ==
    IF matches = <<>> THEN <<>>
    ELSE LET m == Strip(Head(matches))
         IN  (IF m # <<>> /\ m # DEFAULT THEN <<m>> ELSE <<>>)
                 \o NamedProfiles(Tail(matches))

\* the profile list get_aws_profiles returns for a readable file
get_aws_profiles(content) ==
    NamedProfiles(FindAll(content, 1))
        \o (IF Contains(content, DEFAULT_SECTION) THEN <<DEFAULT>> ELSE <<>>)

\* ------------------------------------------------------------------ write_combined_csv
\* the loop that picks the headers: row 0 of the first non-empty dataset, else None
RECURSIVE FirstHeaders(_)
FirstHeaders(all_data) ==
    IF all_data = <<>> THEN None
    ELSE IF Len(Head(all_data)) > 0 THEN Head(all_data)[1]
    ELSE FirstHeaders(Tail(all_data))

\* mutant: the header row of every dataset is written again with its data rows
RECURSIVE DataRows_keepHeaders(_)
DataRows_keepHeaders(all_data) ==
    IF all_data = <<>> THEN <<>>
    ELSE (IF Len(Head(all_data)) > 1 THEN Head(all_data) ELSE <<>>)
             \o DataRows_keepHeaders(Tail(all_data))

\* the writing loop: data[1:] of every dataset with more than one row
RECURSIVE DataRows(_)
DataRows(all_data) ==
    IF all_data = <<>> THEN <<>>
    ELSE (IF Len(Head(all_data)) > 1 THEN Tail(Head(all_data)) ELSE <<>>)
             \o DataRows(Tail(all_data))

\* Python truthiness of `headers`: None and the empty row are both false
HeadersFalsy(headers) == headers = None \/ headers = <<>>

\* write_combined_csv(all_data, output_file): the file afterwards and what is printed
write_combined_csv(all_data, before) ==
    IF all_data = <<>>
        THEN [file |-> before, wrote |-> FALSE, out |-> <<<<"No data to write">>>>]
    ELSE IF HeadersFalsy(FirstHeaders(all_data))
        THEN [file |-> before, wrote |-> FALSE, out |-> <<<<"No valid headers found">>>>]
    ELSE [file |-> FileOf(<<FirstHeaders(all_data)>> \o DataRows(all_data)),
          wrote |-> TRUE, out |-> <<<<"Combined CSV written">>>>]

\* ------------------------------------------------------------------ the scanner call
\* How one subprocess.run of the scanner ends. file is the CSV the child left at the
\* expected path (NoFile when it left none).
ExitZero(file) == [kind |-> "exit0", file |-> file]
NonZero == [kind |-> "nonzero", file |-> NoFile]
Timeout == [kind |-> "timeout", file |-> NoFile]
LaunchException == [kind |-> "exception", file |-> NoFile]

\* run_deployment_scanner (files mode): every outcome is handled inside the function,
\* which returns None; nothing is raised to main
run_deployment_scanner(outcome) == [raised |-> FALSE, value |-> None]

\* run_deployment_scanner_and_parse_csv (single mode): the rows it returns
run_deployment_scanner_and_parse_csv(outcome) ==
    IF outcome.kind = "exit0"
        THEN IF outcome.file.exists
                THEN [raised |-> FALSE, value |-> outcome.file.rows]
                ELSE [raised |-> FALSE, value |-> <<>>]
        ELSE [raised |-> FALSE, value |-> <<>>]

\* os.remove(csv_file) in run_deployment_scanner_and_parse_csv
RemovesTempFile(outcome) == outcome.kind = "exit0" /\ outcome.file.exists

\* ------------------------------------------------------------------ main
\* mutant: the elif branch (end date without start date) is missing
DatePairInvalid_noElif(a) == a.start_date # None /\ a.end_date = None

\* the date check of main: exactly one of --start-date / --end-date given
DatePairInvalid(a) ==
    \/ (a.start_date # None /\ a.end_date = None)
    \/ (a.start_date = None /\ a.end_date # None)

\* `if args.profiles:`
ProfilesGiven(a) == a.profiles # None /\ a.profiles # <<>>

\* [p.strip() for p in args.profiles.split(',')]
RECURSIVE StripAll(_)
StripAll(parts) ==
    IF parts = <<>> THEN <<>> ELSE <<Strip(Head(parts))>> \o StripAll(Tail(parts))

\* mutant: the entries are not stripped
SpecifiedProfiles_noStrip(a) == Split(a.profiles, ",")

SpecifiedProfiles(a) == StripAll(Split(a.profiles, ","))

\* the dry-run listing: one line per profile, then (single mode) the output file line
RECURSIVE PlanLines(_, _)
PlanLines(mode, profiles) ==
    IF profiles = <<>> THEN <<>>
    ELSE <<<<"plan", Head(profiles)>>>> \o PlanLines(mode, Tail(profiles))

DryRunOutput(mode, profiles) ==
    <<<<"DRY RUN", Len(profiles)>>>> \o PlanLines(mode, profiles)
        \o (IF mode = "single" THEN <<<<"Combined results would be saved">>>> ELSE <<>>)

ValidateDates ==
    /\ pc = "start"
    /\ IF DatePairInvalid(args)
          THEN /\ pc' = "exited"
               /\ exit_code' = 1
               /\ stdout' = Append(stdout, <<"Error: date pair">>)
          ELSE /\ pc' = "resolve"
               /\ UNCHANGED <<exit_code, stdout>>
    /\ UNCHANGED <<script, args, config, profiles_to_process, idx, successful_profiles,
                   failed_profiles, all_csv_data, calls, running, tempfiles, fsops,
                   combined, discovery_ran>>

\* the profile list main resolves, and whether it called get_aws_profiles to get it:
\* [ran, fatal, profiles]
ResolvedProfiles(a, cfg) ==
    IF ProfilesGiven(a)
        THEN [ran |-> FALSE, fatal |-> FALSE, profiles |-> SpecifiedProfiles(a)]
    ELSE IF cfg.state # "ok"
        THEN [ran |-> TRUE, fatal |-> TRUE, profiles |-> <<>>]
    ELSE [ran |-> TRUE, fatal |-> FALSE, profiles |-> get_aws_profiles(cfg.content)]

ResolveProfiles ==
    /\ pc = "resolve"
    /\ LET res == ResolvedProfiles(args, config)
       IN  /\ discovery_ran' = res.ran
           /\ IF res.fatal
                 THEN /\ pc' = "exited"
                      /\ exit_code' = 1
                      /\ stdout' = Append(stdout, <<"Error: AWS config file">>)
                      /\ UNCHANGED profiles_to_process
              ELSE IF res.profiles = <<>>
                 THEN /\ pc' = "exited"
                      /\ exit_code' = 1
                      /\ stdout' = Append(stdout, <<"No profiles found to process">>)
                      /\ profiles_to_process' = res.profiles
              ELSE /\ pc' = "show"
                   /\ profiles_to_process' = res.profiles
                   /\ UNCHANGED <<exit_code, stdout>>
    /\ UNCHANGED <<script, args, config, idx, successful_profiles, failed_profiles,
                   all_csv_data, calls, running, tempfiles, fsops, combined>>

\* mutant: the dry-run branch does not return and falls into the processing loop
DryRun_noReturn ==
    /\ pc = "show"
    /\ args.dry_run
    /\ stdout' = stdout \o DryRunOutput(script, profiles_to_process)
    /\ pc' = "loop"
    /\ UNCHANGED <<script, args, config, profiles_to_process, idx, successful_profiles,
                   failed_profiles, all_csv_data, calls, running, tempfiles, fsops,
                   combined, discovery_ran, exit_code>>

DryRun ==
    /\ pc = "show"
    /\ args.dry_run
    /\ stdout' = stdout \o DryRunOutput(script, profiles_to_process)
    /\ pc' = "done"
    /\ exit_code' = 0
    /\ UNCHANGED <<script, args, config, profiles_to_process, idx, successful_profiles,
                   failed_profiles, all_csv_data, calls, running, tempfiles, fsops,
                   combined, discovery_ran>>

StartProcessing ==
    /\ pc = "show"
    /\ ~args.dry_run
    /\ successful_profiles' = <<>>
    /\ failed_profiles' = <<>>
    /\ all_csv_data' = <<>>
    /\ idx' = 0
    /\ pc' = "loop"
    /\ UNCHANGED <<script, args, config, profiles_to_process, calls, running, tempfiles,
                   fsops, combined, stdout, discovery_ran, exit_code>>

\* mutant: a profile that returned no rows is added to neither list
RecordResult_drop(mode, profile, res, succ, fail, data) ==
    IF res.raised
        THEN [succ |-> succ, fail |-> Append(fail, profile), data |-> data]
    ELSE IF mode = "files"
        THEN [succ |-> Append(succ, profile), fail |-> fail, data |-> data]
    ELSE IF res.value # <<>>
        THEN [succ |-> Append(succ, profile), fail |-> fail,
              data |-> Append(data, res.value)]
    ELSE [succ |-> succ, fail |-> fail, data |-> data]

\* What main does with the value the scanner call returned (or the exception it
\* raised): the three lists afterwards.
RecordResult(mode, profile, res, succ, fail, data) ==
    IF res.raised
        THEN [succ |-> succ, fail |-> Append(fail, profile), data |-> data]
    ELSE IF mode = "files"
        THEN [succ |-> Append(succ, profile), fail |-> fail, data |-> data]
    ELSE IF res.value # <<>>
        THEN [succ |-> Append(succ, profile), fail |-> fail,
              data |-> Append(data, res.value)]
    ELSE [succ |-> succ, fail |-> Append(fail, profile), data |-> data]

ScannerResult(mode, outcome) ==
    IF mode = "files" THEN run_deployment_scanner(outcome)
    ELSE run_deployment_scanner_and_parse_csv(outcome)

\* the temp CSV is removed only in single mode
TempFileRemoved(mode, outcome) == mode = "single" /\ RemovesTempFile(outcome)

\* the call log entry of a finished subprocess.run: how it ended and how many rows
\* the CSV it left holds
CallRecord(profile, outcome) ==
    [profile |-> profile, outcome |-> outcome.kind,
     rows |-> IF outcome.file.exists THEN Len(outcome.file.rows) ELSE 0]

\* mutant: a timeout ends the batch (the remaining entries are skipped)
NextPosition_abort(k, outcome) ==
    IF outcome.kind = "timeout" THEN Len(profiles_to_process) ELSE k

\* `for i, profile in enumerate(profiles_to_process, 1)`: the entries finished once
\* the iteration of entry k is over, however it ended
NextPosition(k, outcome) == k

\* the rest of one loop iteration once subprocess.run has ended with `outcome`;
\* log is the call log with this call's final entry
FinishIteration(k, outcome, log) ==
    LET profile == profiles_to_process[k]
        rec == RecordResult(script, profile, ScannerResult(script, outcome),
                            successful_profiles, failed_profiles, all_csv_data)
    IN  /\ calls' = log
        /\ successful_profiles' = rec.succ
        /\ failed_profiles' = rec.fail
        /\ all_csv_data' = rec.data
        /\ tempfiles' = IF outcome.file.exists /\ ~TempFileRemoved(script, outcome)
                           THEN tempfiles \cup {k} ELSE tempfiles
        /\ fsops' = fsops
                \cup (IF outcome.file.exists THEN {<<"create", "scan", k>>} ELSE {})
                \cup (IF TempFileRemoved(script, outcome)
                         THEN {<<"delete", "scan", k>>} ELSE {})
        /\ idx' = NextPosition(k, outcome)
        /\ pc' = "loop"

\* the child processes alive once subprocess.run has returned or raised: it waits for
\* the child on exit and kills it on timeout
ChildrenAfterRun(alive, k, outcome) == alive \ {k}

\* subprocess.run starts the scanner for the next list entry and blocks
Launch ==
    /\ pc = "loop"
    /\ idx < Len(profiles_to_process)
    /\ calls' = Append(calls, [profile |-> profiles_to_process[idx + 1],
                               outcome |-> "pending", rows |-> 0])
    /\ running' = running \cup {idx + 1}
    /\ pc' = "wait"
    /\ UNCHANGED <<script, args, config, profiles_to_process, idx, successful_profiles,
                   failed_profiles, all_csv_data, tempfiles, fsops, combined, stdout,
                   discovery_ran, exit_code>>

\* subprocess.run raises before a child exists (e.g. the interpreter cannot be started)
LaunchFails ==
    /\ pc = "loop"
    /\ idx < Len(profiles_to_process)
    /\ FinishIteration(idx + 1, LaunchException,
                       Append(calls, CallRecord(profiles_to_process[idx + 1],
                                                LaunchException)))
    /\ UNCHANGED <<script, args, config, profiles_to_process, running, combined, stdout,
                   discovery_ran, exit_code>>

\* ------------------------------------------------------------------ inputs
A == <<"a">>
B == <<"b">>
D1 == <<"2", "0", "2", "4", "0", "1", "0", "1">>
H == <<"h">>      \* a header row
R1 == <<"r1">>    \* data rows
R2 == <<"r2">>
R3 == <<"r3">>

\* sequences over S of length at most n
RECURSIVE SeqUpTo(_, _)
SeqUpTo(S, n) ==
    IF n = 0 THEN {<<>>}
    ELSE SeqUpTo(S, n - 1) \cup {Append(s, x) : s \in SeqUpTo(S, n - 1), x \in S}

RECURSIVE Flatten(_)
Flatten(ss) == IF ss = <<>> THEN <<>> ELSE Head(ss) \o Flatten(Tail(ss))

RECURSIVE Spaces(_)
Spaces(n) == IF n = 0 THEN <<>> ELSE <<" ">> \o Spaces(n - 1)

\* the CSV files a scanner run may leave behind
ScanFiles == {<<>>, <<H>>, <<H, R1>>, <<<<>>, H>>}

\* how a started scanner process can end
Outcomes ==
    {NonZero, Timeout, ExitZero(NoFile)} \cup {ExitZero(FileOf(d)) : d \in ScanFiles}

\* subprocess.run returns or raises TimeoutExpired; the iteration is finished
Return ==
    /\ pc = "wait"
    /\ \E outcome \in Outcomes :
        /\ FinishIteration(idx + 1, outcome,
                           [calls EXCEPT ![Len(calls)] =
                               CallRecord(profiles_to_process[idx + 1], outcome)])
        /\ running' = ChildrenAfterRun(running, idx + 1, outcome)
    /\ UNCHANGED <<script, args, config, profiles_to_process, combined, stdout,
                   discovery_ran, exit_code>>

\* what main does with the collected data after the loop (single mode only)
CombineStep(mode, data, before) ==
    IF mode = "single" /\ data # <<>>
        THEN write_combined_csv(data, before)
        ELSE [file |-> before, wrote |-> FALSE, out |-> <<>>]

\* after the loop: the combined file (single mode), then the summary
Finish ==
    /\ pc = "loop"
    /\ idx = Len(profiles_to_process)
    /\ LET w == CombineStep(script, all_csv_data, combined)
       IN  /\ combined' = w.file
           /\ fsops' = fsops \cup (IF w.wrote THEN {<<"write", "output", 0>>} ELSE {})
           /\ stdout' = stdout \o w.out
                  \o <<<<"summary", Len(profiles_to_process),
                         Len(successful_profiles), Len(failed_profiles)>>>>
    /\ pc' = "done"
    /\ exit_code' = 0
    /\ UNCHANGED <<script, args, config, profiles_to_process, idx, successful_profiles,
                   failed_profiles, all_csv_data, calls, running, tempfiles,
                   discovery_ran>>

\* "[" (profile )? name "]" NL, with pre / post spaces around the name
SectionLine(kw, pre, name, post) ==
    <<"[">> \o (IF kw THEN PROFILE \o <<" ">> ELSE <<>>)
        \o Spaces(pre) \o name \o Spaces(post) \o <<"]", NL>>

\* a,b,c
RECURSIVE JoinComma(_)
JoinComma(parts) ==
    IF parts = <<>> THEN <<>>
    ELSE IF Len(parts) = 1 THEN Head(parts)
    ELSE Head(parts) \o <<",">> \o JoinComma(Tail(parts))

MissingConfig == [state |-> "missing", content |-> <<>>]
UnreadableConfig == [state |-> "unreadable", content |-> <<>>]
ConfigOf(lines) == [state |-> "ok", content |-> Flatten(lines)]

ExampleConfig ==
    ConfigOf(<<SectionLine(FALSE, 0, A, 0), SectionLine(TRUE, 0, B, 0),
               SectionLine(FALSE, 0, DEFAULT, 0)>>)

InitRest ==
    /\ profiles_to_process = <<>>
    /\ idx = 0
    /\ successful_profiles = <<>>
    /\ failed_profiles = <<>>
    /\ all_csv_data = <<>>
    /\ calls = <<>>
    /\ running = {}
    /\ tempfiles = {}
    /\ fsops = {}
    /\ combined = NoFile
    /\ stdout = <<>>
    /\ discovery_ran = FALSE
    /\ exit_code = Running

\* ------------------------------------------------------------------ full runs
Init ==
    /\ script \in {"files", "single"}
    /\ args \in [start_date : {None, <<>>, D1}, end_date : {None, <<>>, D1},
                 profiles : {None} \cup {JoinComma(ns) : ns \in SeqUpTo({A, B}, MaxBatch)},
                 dry_run : BOOLEAN]
    /\ config \in {MissingConfig, ExampleConfig}
    /\ pc = "start"
    /\ InitRest

Next ==
    \/ ValidateDates
    \/ ResolveProfiles
    \/ DryRun
    \/ StartProcessing
    \/ Launch
    \/ LaunchFails
    \/ Return
    \/ Finish

Spec == Init /\ [][Next]_vars

\* the interpreter keeps executing the loop and the code after it, and subprocess.run
\* always ends: the child exits, or it is killed after timeout=300 seconds
FairSpec ==
    Spec /\ WF_vars(Launch \/ LaunchFails) /\ WF_vars(Return) /\ WF_vars(Finish)

\* ------------------------------------------------------------------ start of main
\* --profiles entries: a name, possibly empty, possibly padded with spaces
ProfileEntries ==
    {A, B, <<>>, <<" ">> \o A, B \o <<" ">>, <<" ">> \o A \o <<" ">>}

StartupLines ==
    {SectionLine(FALSE, 0, A, 0), SectionLine(TRUE, 0, B, 0),
     SectionLine(FALSE, 0, DEFAULT, 0)}

\* main from the parsed arguments to the entry of the processing loop, over padded
\* --profiles arguments and generated configuration files
InitStartup ==
    /\ script \in {"files", "single"}
    /\ args \in [start_date : {None, D1}, end_date : {None, D1},
                 profiles : {None}
                     \cup {JoinComma(es) : es \in SeqUpTo(ProfileEntries, MaxProfiles)},
                 dry_run : BOOLEAN]
    /\ config \in {MissingConfig, UnreadableConfig}
                      \cup {ConfigOf(ls) : ls \in SeqUpTo(StartupLines, MaxLines)}
    /\ pc = "start"
    /\ InitRest

NextStartup ==
    \/ ValidateDates
    \/ ResolveProfiles
    \/ DryRun
    \/ StartProcessing

SpecStartup == InitStartup /\ [][NextStartup]_vars

\* ------------------------------------------------------------------ get_aws_profiles alone
\* the section lines of a configuration file: [name], [profile name], with optional
\* spaces around the name, and [default]
SectionLines ==
    {SectionLine(kw, pre, n, post) :
        kw \in BOOLEAN, pre \in 0..1, n \in {A, B}, post \in 0..1}
        \cup {SectionLine(FALSE, 0, DEFAULT, 0)}

InitCfg ==
    /\ script = "files"
    /\ args = [start_date |-> None, end_date |-> None, profiles |-> None,
               dry_run |-> FALSE]
    /\ config \in {ConfigOf(ls) : ls \in SeqUpTo(SectionLines, MaxLines)}
    /\ pc = "cfg"
    /\ InitRest

\* all_profiles = get_aws_profiles() on a readable file
Discover ==
    /\ pc = "cfg"
    /\ config.state = "ok"
    /\ profiles_to_process' = get_aws_profiles(config.content)
    /\ discovery_ran' = TRUE
    /\ pc' = "cfg_done"
    /\ UNCHANGED <<script, args, config, idx, successful_profiles, failed_profiles,
                   all_csv_data, calls, running, tempfiles, fsops, combined, stdout,
                   exit_code>>

SpecCfg == InitCfg /\ [][Discover]_vars

\* ------------------------------------------------------------------ write_combined_csv alone
CsvRows == {<<>>, H, R1}

ExampleData == <<<<H, R1, R2>>, <<H, R3>>>>

InitCsv ==
    /\ script = "single"
    /\ args = [start_date |-> None, end_date |-> None, profiles |-> None,
               dry_run |-> FALSE]
    /\ config = MissingConfig
    /\ pc = "csv"
    /\ profiles_to_process = <<>>
    /\ idx = 0
    /\ successful_profiles = <<>>
    /\ failed_profiles = <<>>
    /\ all_csv_data \in SeqUpTo(SeqUpTo(CsvRows, MaxRows), MaxResults) \cup {ExampleData}
    /\ calls = <<>>
    /\ running = {}
    /\ tempfiles = {}
    /\ fsops = {}
    /\ combined = NoFile
    /\ stdout = <<>>
    /\ discovery_ran = FALSE
    /\ exit_code = Running

\* write_combined_csv(all_data, output_file)
WriteCombined ==
    /\ pc = "csv"
    /\ LET w == write_combined_csv(all_csv_data, combined)
       IN  /\ combined' = w.file
           /\ fsops' = fsops \cup (IF w.wrote THEN {<<"write", "output", 0>>} ELSE {})
           /\ stdout' = stdout \o w.out
    /\ pc' = "csv_done"
    /\ UNCHANGED <<script, args, config, profiles_to_process, idx, successful_profiles,
                   failed_profiles, all_csv_data, calls, running, tempfiles,
                   discovery_ran, exit_code>>

SpecCsv == InitCsv /\ [][WriteCombined]_vars

\* ------------------------------------------------------------------ properties
InSeq(x, s) == \E i \in 1..Len(s) : s[i] = x

NoDup(s) == \A i, j \in 1..Len(s) : s[i] = s[j] => i = j

\* a real (non-dry) run that has printed its summary
RealRunDone == pc = "done" /\ ~args.dry_run

FailureKinds == {"nonzero", "timeout", "exception"}

Printed(msg) == \E i \in 1..Len(stdout) : stdout[i][1] = msg

\* C1: in both scripts, when the summary is printed every profile whose scanner call
\* ended in a non-zero exit, a timeout or a launch exception is in failed_profiles and
\* not in successful_profiles (stated for lists without repeated names, where list
\* membership identifies the call).
C1_FailedCallsCountedFailed ==
    (RealRunDone /\ NoDup(profiles_to_process)) =>
        \A k \in 1..Len(calls) :
            calls[k].outcome \in FailureKinds =>
                /\ InSeq(calls[k].profile, failed_profiles)
                /\ ~InSeq(calls[k].profile, successful_profiles)

\* C4: in single mode every profile whose scanner call returned exit code 0 is in
\* successful_profiles and not in failed_profiles at the summary, with or without a
\* CSV file and whatever its number of rows, and no CSV the call left stays on disk.
C4_ExitZeroCountedSuccessful ==
    (RealRunDone /\ script = "single" /\ NoDup(profiles_to_process)) =>
        \A k \in 1..Len(calls) :
            calls[k].outcome = "exit0" =>
                /\ InSeq(calls[k].profile, successful_profiles)
                /\ ~InSeq(calls[k].profile, failed_profiles)
                /\ k \notin tempfiles

\* C9: in single mode, a real run in which no call produced any row writes no combined
\* file, prints a "no data" message and ends without a failure exit code.
C9_NoDataIsReported ==
    (RealRunDone /\ script = "single" /\ \A k \in 1..Len(calls) : calls[k].rows = 0) =>
        /\ combined = NoFile
        /\ <<"write", "output", 0>> \notin fsops
        /\ exit_code = 0
        /\ (Printed("No data to write") \/ Printed("No valid headers found"))

\* the entries among the first k of s whose mask value is b, in order
RECURSIVE Bucket(_, _, _, _)
Bucket(s, mask, b, k) ==
    IF k = 0 THEN <<>>
    ELSE Bucket(s, mask, b, k - 1) \o (IF mask[k] = b THEN <<s[k]>> ELSE <<>>)

\* C10: throughout the loop and at the summary, the idx processed positions are split
\* between successful_profiles and failed_profiles (each position in exactly one, in
\* processing order, nothing from the unprocessed positions); so the two counts of the
\* summary add up to the total, and in single mode all_csv_data has one dataset per
\* successful profile.
C10_BucketsPartitionProcessed ==
    (pc \in {"loop", "wait", "done"} /\ ~args.dry_run) =>
        /\ \E mask \in [1..idx -> BOOLEAN] :
               /\ successful_profiles = Bucket(profiles_to_process, mask, TRUE, idx)
               /\ failed_profiles = Bucket(profiles_to_process, mask, FALSE, idx)
        /\ pc = "done" =>
               /\ idx = Len(profiles_to_process)
               /\ stdout[Len(stdout)] =
                      <<"summary", Len(profiles_to_process), Len(successful_profiles),
                        Len(profiles_to_process) - Len(successful_profiles)>>
        /\ script = "single" => Len(all_csv_data) = Len(successful_profiles)
        /\ script = "files" => all_csv_data = <<>>

C10_Witness ==
    /\ RealRunDone
    /\ script = "single"
    /\ Len(profiles_to_process) = 2
    /\ Len(successful_profiles) = 1
    /\ Len(failed_profiles) = 1

\* C2 (safety part): the scanner calls made so far are the first entries of the
\* resolved list, one call per entry and in list order; a child process is alive only
\* while main waits in subprocess.run for the call made last; at the summary every
\* entry has been called exactly once.
C2_SequentialOncePerEntry ==
    /\ Len(calls) <= Len(profiles_to_process)
    /\ \A k \in 1..Len(calls) : calls[k].profile = profiles_to_process[k]
    /\ pc = "wait" =>
           /\ running = {Len(calls)}
           /\ Len(calls) = idx + 1
           /\ calls[Len(calls)].outcome = "pending"
    /\ pc # "wait" =>
           /\ running = {}
           /\ pc \in {"loop", "done"} => Len(calls) = idx
           /\ \A k \in 1..Len(calls) : calls[k].outcome # "pending"
    /\ RealRunDone =>
           /\ Len(calls) = Len(profiles_to_process)
           /\ stdout[Len(stdout)][1] = "summary"

\* C2: in a real run of either script the scanner is called exactly once per list
\* entry, in list order and one call at a time, and whatever the outcome of each call
\* the run reaches the summary.
C2_EveryEntryOnceThenSummary ==
    /\ []C2_SequentialOncePerEntry
    /\ (pc = "loop") ~> (pc = "done" /\ Printed("summary"))

C2_Witness ==
    /\ RealRunDone
    /\ Len(calls) = 2
    /\ calls[1].outcome = "timeout"
    /\ calls[2].outcome = "exit0"

\* exactly one of --start-date / --end-date was given
ExactlyOneDate == (args.start_date = None) # (args.end_date = None)

\* C6: with exactly one of the two dates main exits with status 1 before resolving the
\* profiles and before any scanner call; with both or neither, whatever the strings,
\* the date check prints no error and any exit comes from a later step.
C6_DatePairValidation ==
    /\ (ExactlyOneDate /\ pc # "start") =>
           /\ pc = "exited"
           /\ exit_code = 1
           /\ ~discovery_ran
           /\ profiles_to_process = <<>>
           /\ calls = <<>>
           /\ running = {}
    /\ ~ExactlyOneDate =>
           /\ ~Printed("Error: date pair")
           /\ pc # "start" => (pc = "exited" => stdout # <<>>)
           /\ pc = "exited" =>
                  stdout[Len(stdout)][1] \in {"Error: AWS config file",
                                              "No profiles found to process"}

C6_Witness ==
    /\ pc = "exited"
    /\ args.start_date = None
    /\ args.end_date = <<>>
    /\ exit_code = 1

\* the profiles of the "plan" lines of the output, in order
RECURSIVE PlannedProfiles(_)
PlannedProfiles(out) ==
    IF out = <<>> THEN <<>>
    ELSE (IF Head(out)[1] = "plan" THEN <<Head(out)[2]>> ELSE <<>>)
             \o PlannedProfiles(Tail(out))

\* C7: a --dry-run run prints one planned target per resolved profile, in list order,
\* and ends without any scanner call and without creating, writing or deleting a CSV.
C7_DryRunOnlyPrints ==
    args.dry_run =>
        /\ calls = <<>>
        /\ running = {}
        /\ fsops = {}
        /\ tempfiles = {}
        /\ combined = NoFile
        /\ pc \notin {"loop", "wait"}
        /\ pc = "done" =>
               /\ profiles_to_process # <<>>
               /\ PlannedProfiles(stdout) = profiles_to_process
               /\ exit_code = 0

C7_Witness ==
    /\ args.dry_run
    /\ pc = "done"
    /\ Len(profiles_to_process) = 3
    /\ PlannedProfiles(stdout) = <<A, B, DEFAULT>>

\* the names the entries of a --profiles argument stand for
RECURSIVE EntryNames(_)
EntryNames(es) ==
    IF es = <<>> THEN <<>>
    ELSE <<SelectSeq(Head(es), LAMBDA c : c # " ")>> \o EntryNames(Tail(es))

\* a --profiles list was supplied (argparse leaves None without the option; an empty
\* value holds no list)
ProfilesSupplied == args.profiles # None /\ args.profiles # <<>>

RECURSIVE Distinct(_)
Distinct(s) ==
    IF s = <<>> THEN <<>>
    ELSE LET init == Distinct(SubSeq(s, 1, Len(s) - 1))
         IN  IF InSeq(s[Len(s)], init) THEN init ELSE Append(init, s[Len(s)])

\* the name a section line declares: the text between "[" (and "profile ") and "]",
\* trimmed
LineName(line) ==
    LET inner == SubSeq(line, 2, Len(line) - 2)
        body == IF Len(inner) > 8 /\ SubSeq(inner, 1, 8) = PROFILE \o <<" ">>
                    THEN SubSeq(inner, 9, Len(inner)) ELSE inner
    IN  SelectSeq(body, LAMBDA c : c # " ")

RECURSIVE LineNames(_)
LineNames(ls) ==
    IF ls = <<>> THEN <<>> ELSE <<LineName(Head(ls))>> \o LineNames(Tail(ls))

\* C5: for every sequence of section lines get_aws_profiles returns distinct names:
\* the non-default names in file order, none repeated, then "default" once and last
\* exactly when the file has a [default] section.
C5_DistinctNamesDefaultLast ==
    pc = "cfg_done" =>
        \A ls \in SeqUpTo(SectionLines, MaxLines) :
            config.content = Flatten(ls) =>
                /\ NoDup(profiles_to_process)
                /\ profiles_to_process =
                       Distinct(SelectSeq(LineNames(ls), LAMBDA n : n # DEFAULT))
                           \o (IF InSeq(DEFAULT, LineNames(ls)) THEN <<DEFAULT>> ELSE <<>>)

\* the first dataset that has a row, 0 when none has
FirstWithRow(results) ==
    IF \E k \in 1..Len(results) : Len(results[k]) >= 1
        THEN CHOOSE k \in 1..Len(results) :
                 /\ Len(results[k]) >= 1
                 /\ \A j \in 1..(k - 1) : Len(results[j]) = 0
        ELSE 0

\* the rows after the first row of the first k results, in order
RECURSIVE RowsAfterFirst(_, _)
RowsAfterFirst(results, k) ==
    IF k = 0 THEN <<>>
    ELSE RowsAfterFirst(results, k - 1)
             \o SubSeq(results[k], 2, Len(results[k]))

\* the combined file the claim describes
ExpectedCombined(results) ==
    FileOf(<<results[FirstWithRow(results)][1]>>
               \o RowsAfterFirst(results, Len(results)))

\* C3 (as stated): whenever some result has a row, the combined file is the first row
\* of the first result that has one, then the rows after the first row of every
\* result, in processing order.
C3_CombinedIsHeaderThenDataRows ==
    (pc = "csv_done" /\ FirstWithRow(all_csv_data) # 0) =>
        combined = ExpectedCombined(all_csv_data)

\* C3 (amended): the same, provided the first row of the first result that has a row
\* has at least one field; when that row is empty nothing is written and "No valid
\* headers found" is printed.
C3_CombinedWhenHeaderNonEmpty ==
    (pc = "csv_done" /\ FirstWithRow(all_csv_data) # 0) =>
        IF all_csv_data[FirstWithRow(all_csv_data)][1] # <<>>
            THEN /\ combined = ExpectedCombined(all_csv_data)
                 /\ <<"write", "output", 0>> \in fsops
            ELSE /\ combined = NoFile
                 /\ fsops = {}
                 /\ Printed("No valid headers found")

C3_Witness ==
    /\ pc = "csv_done"
    /\ all_csv_data = ExampleData
    /\ combined = FileOf(<<H, R1, R2, R3>>)

====
